---- MODULE Spec2Model ----
(***************************************************************************)
(* Model of wcwidth/wcwidth.py: the interval binary search (_bisearch),    *)
(* the Unicode version resolver (_wcversion_value, _wcmatch_version, with  *)
(* its lru_cache), and the width classifier (wcwidth with its lru_cache,   *)
(* wcswidth).                                                              *)
(*                                                                         *)
(* Python strings are sequences of one-character strings, so that          *)
(* str.split('.') and int() are computed and not assumed.  None is the     *)
(* empty sequence <<>> and a present value v is <<v>> (os.environ.get and  *)
(* the n argument of wcswidth).  A call's outcome is a record              *)
(* [exc, val]: exc = "none" for a normal return of val.                    *)
(***************************************************************************)
EXTENDS Integers, Sequences, FiniteSets, TLC

VARIABLES
    supported_versions, \* the tuple list_versions() returns, fixed for the process
    environ,            \* os.environ['UNICODE_VERSION']: <<>> unset, <<s>> set to s
    match_cache,        \* lru_cache of _wcmatch_version, least recently used first
    width_cache,        \* lru_cache of wcwidth, least recently used first
    op,                 \* the operation the last step performed
    args,               \* its arguments [token, wc, pwcs, n]
    ret_version,        \* the version string the last resolve returned
    ret_width,          \* the outcome [exc, val] of the last wcwidth / wcswidth
    warned,             \* number of warnings.warn calls the last step made
    ncalls,             \* number of steps taken so far
    b_table, b_ucs,     \* _bisearch: its arguments
    lbound, ubound,     \* _bisearch: its locals
    b_pc,               \* _bisearch: position ("idle", "loop", "done")
    b_ret               \* _bisearch: returned value

vars == <<supported_versions, environ, match_cache, width_cache, op, args,
          ret_version, ret_width, warned, ncalls,
          b_table, b_ucs, lbound, ubound, b_pc, b_ret>>

resolver_vars == <<supported_versions, environ, match_cache, width_cache, op, args,
                   ret_version, ret_width, warned, ncalls>>

bisearch_vars == <<b_table, b_ucs, lbound, ubound, b_pc, b_ret>>

----------------------------------------------------------------------------
(* Bounds of the model *)

\* steps (calls and environment changes) in one history
MaxCalls == 3

\* steps in one history of the resolver together with the width classifier
MaxWidthCalls == 2

\* length of the strings given to wcswidth
MaxStrLen == 2

\* _bisearch tables hold intervals over 0..MaxCode
MaxCode == 7

\* _bisearch tables hold 1..MaxIntervals intervals
MaxIntervals == 3

----------------------------------------------------------------------------
(* Strings *)

s_auto == <<"a", "u", "t", "o">>

s_latest == <<"l", "a", "t", "e", "s", "t">>

v_4_1_0 == <<"4", ".", "1", ".", "0">>

v_5_0_0 == <<"5", ".", "0", ".", "0">>

v_8_0_0 == <<"8", ".", "0", ".", "0">>

v_10_0_0 == <<"1", "0", ".", "0", ".", "0">>

\* the value of one decimal digit character
digit_value(ch) ==
    CASE ch = "0" -> 0 [] ch = "1" -> 1 [] ch = "2" -> 2 [] ch = "3" -> 3
      [] ch = "4" -> 4 [] ch = "5" -> 5 [] ch = "6" -> 6 [] ch = "7" -> 7
      [] ch = "8" -> 8 [] ch = "9" -> 9

\* int(s) of a non-empty string of decimal digits
RECURSIVE py_int(_)
py_int(s) ==
    IF Len(s) = 1 THEN digit_value(s[1])
    ELSE 10 * py_int(SubSeq(s, 1, Len(s) - 1)) + digit_value(s[Len(s)])

\* s.split('.') : the pieces between the dots, in order
RECURSIVE py_split(_, _)
py_split(s, cur) ==
    IF s = <<>> THEN <<cur>>
    ELSE IF Head(s) = "." THEN <<cur>> \o py_split(Tail(s), <<>>)
    ELSE py_split(Tail(s), Append(cur, Head(s)))

\* Python's tuple a <= b: lexicographic, a proper prefix is smaller
RECURSIVE tuple_le(_, _)
tuple_le(a, b) ==
    IF a = <<>> THEN TRUE
    ELSE IF b = <<>> THEN FALSE
    ELSE IF Head(a) < Head(b) THEN TRUE
    ELSE IF Head(a) > Head(b) THEN FALSE
    ELSE tuple_le(Tail(a), Tail(b))

----------------------------------------------------------------------------
(* The version resolver *)

\* _wcversion_value: tuple(int(n) for n in ver_string.split('.')).  Its own
\* lru_cache memoizes a function of the argument alone and is not observable.
wcversion_value(ver_string) ==
    LET parts == py_split(ver_string, <<>>)
    IN  [i \in 1..Len(parts) |-> py_int(parts[i])]

\* os.environ.get('UNICODE_VERSION', default)
environ_get(env, default) == IF env = <<>> THEN default ELSE env[1]

\* the scan as a loop `for version in supported_versions` from index i up
RECURSIVE wcmatch_scan_forward(_, _, _, _)
wcmatch_scan_forward(versions, given_version, given_value, i) ==
    IF i > Len(versions)
    THEN [ret |-> versions[1], warn |-> 1]
    ELSE IF tuple_le(wcversion_value(versions[i]), given_value)
    THEN [ret |-> versions[i], warn |-> IF versions[i] # given_version THEN 1 ELSE 0]
    ELSE wcmatch_scan_forward(versions, given_version, given_value, i + 1)

\* the loop `for version in reversed(supported_versions)` from index i down,
\* and the fallback after it
RECURSIVE wcmatch_scan(_, _, _, _)
wcmatch_scan(versions, given_version, given_value, i) ==
    IF i = 0
    THEN [ret |-> versions[1], warn |-> 1]
    ELSE IF tuple_le(wcversion_value(versions[i]), given_value)
    THEN [ret |-> versions[i], warn |-> IF versions[i] # given_version THEN 1 ELSE 0]
    ELSE wcmatch_scan(versions, given_version, given_value, i - 1)

\* faulty variant: the scan runs over supported_versions in ascending order
wcmatch_loop_ascending(versions, given_version) ==
    wcmatch_scan_forward(versions, given_version, wcversion_value(given_version), 1)

\* faulty variant: the function falls off its end (None) when no supported version is
\* low enough
wcmatch_loop_no_fallback(versions, given_version) ==
    LET r == wcmatch_scan(versions, given_version,
                          wcversion_value(given_version), Len(versions))
    IN  IF tuple_le(wcversion_value(r.ret), wcversion_value(given_version))
        THEN r ELSE [ret |-> <<>>, warn |-> 0]

\* lines 233-244 of _wcmatch_version: the nearest-lower scan and the fallback
wcmatch_loop(versions, given_version) ==
    wcmatch_scan(versions, given_version, wcversion_value(given_version), Len(versions))

\* the body of _wcmatch_version: [ret: version string, warn: warnings emitted]
wcmatch_version_body(given_version, env, versions) ==
    LET given == IF given_version = s_auto
                 THEN environ_get(env, s_latest) ELSE given_version
    IN  IF given = s_latest
        THEN [ret |-> versions[Len(versions)], warn |-> 0]
        ELSE wcmatch_loop(versions, given)

----------------------------------------------------------------------------
(* functools.lru_cache: a sequence of [key, val], least recently used first *)

\* the position of key in the cache, 0 when absent
cache_find(cache, key) ==
    IF \E i \in 1..Len(cache) : cache[i].key = key
    THEN CHOOSE i \in 1..Len(cache) : cache[i].key = key
    ELSE 0

\* a hit makes the entry the most recently used
cache_touch(cache, i) ==
    SubSeq(cache, 1, i - 1) \o SubSeq(cache, i + 1, Len(cache)) \o <<cache[i]>>

\* a miss stores the result, evicting the least recently used entry when full
cache_store(cache, key, val, maxsize) ==
    LET kept == IF Len(cache) >= maxsize THEN Tail(cache) ELSE cache
    IN  Append(kept, [key |-> key, val |-> val])

\* @lru_cache(maxsize=8) on _wcmatch_version
MatchCacheMaxsize == 8

\* @lru_cache(maxsize=1000) on wcwidth
WidthCacheMaxsize == 1000

\* _wcmatch_version as callers see it: [ret, warn, cache]
wcmatch_version(given_version, cache, env, versions) ==
    LET i == cache_find(cache, given_version)
    IN  IF i # 0
        THEN [ret |-> cache[i].val, warn |-> 0, cache |-> cache_touch(cache, i)]
        ELSE LET r == wcmatch_version_body(given_version, env, versions)
             IN  [ret |-> r.ret, warn |-> r.warn,
                  cache |-> cache_store(cache, given_version, r.ret, MatchCacheMaxsize)]

----------------------------------------------------------------------------
(* Outcomes of a call *)

Return(v) == [exc |-> "none", val |-> v]

Raise(e) == [exc |-> e, val |-> 0]

----------------------------------------------------------------------------
(* _bisearch.  A table is [type |-> "tuple", items |-> <<<<start, end>>, ...>>]; *)
(* a mapping keyed by version strings is [type |-> "dict", items |-> function].  *)

py_tuple(items) == [type |-> "tuple", items |-> items]

py_dict(items) == [type |-> "dict", items |-> items]

\* faulty variant: an interval's end is excluded
bisearch_iter_end_exclusive(ucs, items, lb, ub) ==
    IF ub >= lb
    THEN LET mid == (lb + ub) \div 2
         IN  IF ucs >= items[mid + 1][2]
             THEN [pc |-> "loop", lbound |-> mid + 1, ubound |-> ub, ret |-> 0]
             ELSE IF ucs < items[mid + 1][1]
             THEN [pc |-> "loop", lbound |-> lb, ubound |-> mid - 1, ret |-> 0]
             ELSE [pc |-> "done", lbound |-> lb, ubound |-> ub, ret |-> 1]
    ELSE [pc |-> "done", lbound |-> lb, ubound |-> ub, ret |-> 0]

\* lines 94-103: one test of `while ubound >= lbound` and, when it holds, one
\* pass of the body; Python index i is items[i + 1]
bisearch_iter(ucs, items, lb, ub) ==
    IF ub >= lb
    THEN LET mid == (lb + ub) \div 2
         IN  IF ucs > items[mid + 1][2]
             THEN [pc |-> "loop", lbound |-> mid + 1, ubound |-> ub, ret |-> 0]
             ELSE IF ucs < items[mid + 1][1]
             THEN [pc |-> "loop", lbound |-> lb, ubound |-> mid - 1, ret |-> 0]
             ELSE [pc |-> "done", lbound |-> lb, ubound |-> ub, ret |-> 1]
    ELSE [pc |-> "done", lbound |-> lb, ubound |-> ub, ret |-> 0]

\* lines 88-92: the bounds and the range test.  table[0] raises KeyError on a
\* mapping keyed by version strings and IndexError on an empty tuple.
bisearch_enter(ucs, table) ==
    IF table.type = "dict"
    THEN [pc |-> "raise", lbound |-> 0, ubound |-> Cardinality(DOMAIN table.items) - 1,
          ret |-> 0, exc |-> "KeyError"]
    ELSE IF Len(table.items) = 0
    THEN [pc |-> "raise", lbound |-> 0, ubound |-> -1, ret |-> 0, exc |-> "IndexError"]
    ELSE IF ucs < table.items[1][1] \/ ucs > table.items[Len(table.items)][2]
    THEN [pc |-> "done", lbound |-> 0, ubound |-> Len(table.items) - 1,
          ret |-> 0, exc |-> "none"]
    ELSE [pc |-> "loop", lbound |-> 0, ubound |-> Len(table.items) - 1,
          ret |-> 0, exc |-> "none"]

\* the while loop run to its end
RECURSIVE bisearch_loop(_, _, _, _)
bisearch_loop(ucs, items, lb, ub) ==
    LET s == bisearch_iter(ucs, items, lb, ub)
    IN  IF s.pc = "done" THEN s.ret
        ELSE bisearch_loop(ucs, items, s.lbound, s.ubound)

\* _bisearch(ucs, table) as one call: its outcome
bisearch(ucs, table) ==
    LET e == bisearch_enter(ucs, table)
    IN  IF e.pc = "raise" THEN Raise(e.exc)
        ELSE IF e.pc = "done" THEN Return(e.ret)
        ELSE Return(bisearch_loop(ucs, table.items, e.lbound, e.ubound))

----------------------------------------------------------------------------
(* The tables, which the source imports from modules outside wcwidth.py *)

\* every version a table generation exists for, ascending
VersionUniverse == <<v_4_1_0, v_5_0_0, v_8_0_0, v_10_0_0>>

\* zero_width interval table of each version (combining marks 0x300-0x36F;
\* 0x483-0x489 from 5.0.0; 0x200B from 8.0.0)
zero_width_table(version) ==
    IF version = v_4_1_0 THEN <<<<768, 879>>>>
    ELSE IF version = v_5_0_0 THEN <<<<768, 879>>, <<1155, 1161>>>>
    ELSE <<<<768, 879>>, <<1155, 1161>>, <<8203, 8203>>>>

\* wide_eastasian interval table of each version (CJK 0x4E00-0x9FFF; the
\* watch 0x231A-0x231B from 10.0.0)
wide_eastasian_table(version) ==
    IF version = v_10_0_0 THEN <<<<8986, 8987>>, <<19968, 40959>>>>
    ELSE <<<<19968, 40959>>>>

\* ZERO_WIDTH: version string -> interval table
ZERO_WIDTH ==
    py_dict([v \in {VersionUniverse[i] : i \in 1..Len(VersionUniverse)} |->
                zero_width_table(v)])

\* WIDE_EASTASIAN: version string -> interval table
WIDE_EASTASIAN ==
    py_dict([v \in {VersionUniverse[i] : i \in 1..Len(VersionUniverse)} |->
                wide_eastasian_table(v)])

\* the keys of the variation-selector override map (0x23E9, 0x2614)
VS16_NARROW_TO_WIDE == {9193, 9748}

----------------------------------------------------------------------------
(* The width classifier *)

\* faulty variant: the C1 range ends at 0x9F exclusive
wcwidth_body_c1_short(ucs, unicode_version) ==
    IF ucs < 32 \/ (127 <= ucs /\ ucs < 159) THEN Return(-1)
    ELSE LET z == bisearch(ucs, ZERO_WIDTH)
         IN  IF z.exc # "none" THEN z ELSE Return(1)

\* lines 132-153 of wcwidth, after unicode_version was resolved.  The tables
\* are passed to _bisearch whole: unicode_version selects nothing.
wcwidth_body(ucs, unicode_version) ==
    IF ucs < 32 \/ (127 <= ucs /\ ucs < 160) THEN Return(-1)
    ELSE LET z == bisearch(ucs, ZERO_WIDTH)
         IN  IF z.exc # "none" THEN z
             ELSE IF z.val # 0 THEN Return(0)
             ELSE LET w == bisearch(ucs, WIDE_EASTASIAN)
                  IN  IF w.exc # "none" THEN w
                      ELSE IF w.val # 0 THEN Return(2)
                      ELSE IF 65024 <= ucs /\ ucs <= 65039 THEN Return(0)
                      ELSE IF ucs \in VS16_NARROW_TO_WIDE THEN Return(2)
                      ELSE Return(1)

\* wcwidth(wc, unicode_version) as callers see it, from the two caches mc
\* (_wcmatch_version) and wc_cache (wcwidth): [out, warn, mcache, wcache].
\* lru_cache stores normal returns only.
wcwidth(wc, unicode_version, mc, wcache, env, versions) ==
    LET key == <<wc, unicode_version>>
        i == cache_find(wcache, key)
    IN  IF i # 0
        THEN [out |-> Return(wcache[i].val), warn |-> 0, mcache |-> mc,
              wcache |-> cache_touch(wcache, i)]
        ELSE LET m == wcmatch_version(unicode_version, mc, env, versions)
                 out == wcwidth_body(wc, m.ret)
             IN  [out |-> out, warn |-> m.warn, mcache |-> m.cache,
                  wcache |-> IF out.exc = "none"
                             THEN cache_store(wcache, key, out.val, WidthCacheMaxsize)
                             ELSE wcache]

\* the loop of wcswidth over chars from position i, with width summed so far
RECURSIVE wcswidth_loop(_, _, _, _, _, _, _, _, _)
wcswidth_loop(chars, i, width, warn, unicode_version, mc, wcache, env, versions) ==
    IF i > Len(chars)
    THEN [out |-> Return(width), warn |-> warn, mcache |-> mc, wcache |-> wcache]
    ELSE LET r == wcwidth(chars[i], unicode_version, mc, wcache, env, versions)
         IN  IF r.out.exc # "none"
             THEN [out |-> r.out, warn |-> warn + r.warn,
                   mcache |-> r.mcache, wcache |-> r.wcache]
             ELSE IF r.out.val < 0
             THEN [out |-> Return(-1), warn |-> warn + r.warn,
                   mcache |-> r.mcache, wcache |-> r.wcache]
             ELSE wcswidth_loop(chars, i + 1, width + r.out.val, warn + r.warn,
                                unicode_version, r.mcache, r.wcache, env, versions)

\* pwcs[:n] for n >= 0
py_prefix(pwcs, n) == SubSeq(pwcs, 1, IF n < Len(pwcs) THEN n ELSE Len(pwcs))

\* wcswidth(pwcs, n, unicode_version): n is <<>> (None) or <<k>>
wcswidth(pwcs, n, unicode_version, mc, wcache, env, versions) ==
    LET k == IF n = <<>> THEN Len(pwcs) ELSE n[1]
    IN  wcswidth_loop(py_prefix(pwcs, k), 1, 0, 0, unicode_version,
                      mc, wcache, env, versions)

----------------------------------------------------------------------------
(* Inputs *)

\* the ascending sub-tuples of versions that keep the elements from index i on
RECURSIVE sub_tuples(_, _)
sub_tuples(versions, i) ==
    IF i > Len(versions) THEN {<<>>}
    ELSE LET rest == sub_tuples(versions, i + 1)
         IN  rest \cup {<<versions[i]>> \o t : t \in rest}

\* the values list_versions() may have: non-empty, ascending by Version Ordering
SupportedLists == sub_tuples(VersionUniverse, 1) \ {<<>>}

\* dotted-numeric tokens: supported ones, between two versions, partial,
\* below and above every version, and one with a leading zero
NumericTokens ==
    {v_4_1_0, v_8_0_0, v_10_0_0,
     <<"4", ".", "9", ".", "9">>, <<"8", ".", "0">>, <<"8">>, <<"1">>,
     <<"0", "8", ".", "0", ".", "0">>, <<"1", "1", ".", "0">>}

Tokens == {s_auto, s_latest} \cup NumericTokens

\* the values UNICODE_VERSION is set to
EnvValues == {s_latest, v_4_1_0, <<"8", ".", "0">>, <<"1">>}

\* C0 and C1 controls with both edges of each range, and printable code
\* points: space, 'A', 0xA0, a combining mark, a CJK ideograph, VS16, U+23E9
ControlPoints == {0, 31, 127, 159}

CodePoints == ControlPoints \cup {32, 65, 160, 769, 20013, 65039, 9193}

\* the version tokens wcwidth and wcswidth are called with
WidthTokens == {s_auto, <<"4", ".", "9", ".", "9">>}

\* the characters of the strings wcswidth is called with
StrChars == {0, 65, 20013}

RECURSIVE strings_upto(_)
strings_upto(n) ==
    IF n = 0 THEN {<<>>}
    ELSE LET shorter == strings_upto(n - 1)
         IN  shorter \cup {Append(s, c) : s \in shorter, c \in StrChars}

Strings == strings_upto(MaxStrLen)

\* the n argument of wcswidth: None or 0..MaxStrLen + 1
Limits == {<<>>} \cup {<<k>> : k \in 0..(MaxStrLen + 1)}

Range(seq) == {seq[i] : i \in 1..Len(seq)}

no_args == [token |-> <<>>, wc |-> 0, pwcs |-> <<>>, n |-> <<>>]

----------------------------------------------------------------------------
(* The process: calls of the public functions, in any order, and changes of *)
(* the environment variable between them                                    *)

InitBisearchIdle ==
    /\ b_table = <<>>
    /\ b_ucs = 0
    /\ lbound = 0
    /\ ubound = 0
    /\ b_pc = "idle"
    /\ b_ret = 0

Init ==
    /\ supported_versions \in SupportedLists
    /\ environ = <<>>
    /\ match_cache = <<>>
    /\ width_cache = <<>>
    /\ op = "init"
    /\ args = no_args
    /\ ret_version = <<>>
    /\ ret_width = Return(0)
    /\ warned = 0
    /\ ncalls = 0
    /\ InitBisearchIdle

\* os.environ['UNICODE_VERSION'] = v
SetEnv(v) ==
    /\ ncalls < MaxCalls
    /\ environ # <<v>>
    /\ environ' = <<v>>
    /\ op' = "setenv"
    /\ args' = no_args
    /\ warned' = 0
    /\ ncalls' = ncalls + 1
    /\ UNCHANGED <<supported_versions, match_cache, width_cache, ret_version, ret_width>>
    /\ UNCHANGED bisearch_vars

\* del os.environ['UNICODE_VERSION']
UnsetEnv ==
    /\ ncalls < MaxCalls
    /\ environ # <<>>
    /\ environ' = <<>>
    /\ op' = "setenv"
    /\ args' = no_args
    /\ warned' = 0
    /\ ncalls' = ncalls + 1
    /\ UNCHANGED <<supported_versions, match_cache, width_cache, ret_version, ret_width>>
    /\ UNCHANGED bisearch_vars

\* a call _wcmatch_version(token)
Resolve(token) ==
    /\ ncalls < MaxCalls
    /\ LET r == wcmatch_version(token, match_cache, environ, supported_versions)
       IN  /\ match_cache' = r.cache
           /\ ret_version' = r.ret
           /\ warned' = r.warn
    /\ op' = "resolve"
    /\ args' = [no_args EXCEPT !.token = token]
    /\ ncalls' = ncalls + 1
    /\ UNCHANGED <<supported_versions, environ, width_cache, ret_width>>
    /\ UNCHANGED bisearch_vars

\* a call wcwidth(wc, token)
Wcwidth(wc, token) ==
    /\ ncalls < MaxCalls
    /\ LET r == wcwidth(wc, token, match_cache, width_cache, environ, supported_versions)
       IN  /\ match_cache' = r.mcache
           /\ width_cache' = r.wcache
           /\ ret_width' = r.out
           /\ warned' = r.warn
    /\ op' = "wcwidth"
    /\ args' = [no_args EXCEPT !.token = token, !.wc = wc]
    /\ ncalls' = ncalls + 1
    /\ UNCHANGED <<supported_versions, environ, ret_version>>
    /\ UNCHANGED bisearch_vars

\* a call wcswidth(pwcs, n, token)
Wcswidth(pwcs, n, token) ==
    /\ ncalls < MaxCalls
    /\ LET r == wcswidth(pwcs, n, token, match_cache, width_cache, environ,
                         supported_versions)
       IN  /\ match_cache' = r.mcache
           /\ width_cache' = r.wcache
           /\ ret_width' = r.out
           /\ warned' = r.warn
    /\ op' = "wcswidth"
    /\ args' = [no_args EXCEPT !.token = token, !.pwcs = pwcs, !.n = n]
    /\ ncalls' = ncalls + 1
    /\ UNCHANGED <<supported_versions, environ, ret_version>>
    /\ UNCHANGED bisearch_vars

NextResolve ==
    \/ \E v \in EnvValues : SetEnv(v)
    \/ UnsetEnv
    \/ \E token \in Tokens : Resolve(token)

\* the version resolver alone
SpecResolve == Init /\ [][NextResolve]_vars

NextWidth ==
    \/ \E v \in EnvValues : ncalls < MaxWidthCalls /\ SetEnv(v)
    \/ ncalls < MaxWidthCalls /\ UnsetEnv
    \/ \E token \in Tokens : ncalls < MaxWidthCalls /\ Resolve(token)
    \/ \E wc \in CodePoints, token \in WidthTokens \cup Range(supported_versions) :
          ncalls < MaxWidthCalls /\ Wcwidth(wc, token)
    \/ \E pwcs \in Strings, n \in Limits, token \in WidthTokens :
          ncalls < MaxWidthCalls /\ Wcswidth(pwcs, n, token)

\* the lists the width classifier is run with
WidthLists == {VersionUniverse, <<v_4_1_0, v_5_0_0>>, <<v_8_0_0, v_10_0_0>>}

InitWidth == Init /\ supported_versions \in WidthLists

\* the resolver and the width classifier
Spec == InitWidth /\ [][NextWidth]_vars

NextWcwidth ==
    \/ \E v \in EnvValues : SetEnv(v)
    \/ UnsetEnv
    \/ \E token \in WidthTokens : Resolve(token)
    \/ \E wc \in CodePoints, token \in Range(supported_versions) : Wcwidth(wc, token)

\* wcwidth called with supported versions, between calls of the resolver and
\* changes of the environment
SpecWcwidth == InitWidth /\ [][NextWcwidth]_vars

----------------------------------------------------------------------------
(* _bisearch as a process of its own: one call, step by step *)

\* every table of k intervals over lo..MaxCode: ascending, non-overlapping
RECURSIVE tables_from(_, _)
tables_from(lo, k) ==
    IF k = 0 THEN {<<>>}
    ELSE UNION {{<<<<se[1], se[2]>>>> \o t : t \in tables_from(se[2] + 1, k - 1)} :
                    se \in {p \in (lo..MaxCode) \X (lo..MaxCode) : p[1] <= p[2]}}

BisearchTables == UNION {tables_from(0, k) : k \in 1..MaxIntervals}

\* the table [(10,20),(30,40)] and the queries around its edges
ExampleTable == <<<<10, 20>>, <<30, 40>>>>

ExampleQueries == {9, 10, 20, 21, 29, 30, 41}

InitBisearch ==
    /\ supported_versions = VersionUniverse
    /\ environ = <<>>
    /\ match_cache = <<>>
    /\ width_cache = <<>>
    /\ op = "init"
    /\ args = no_args
    /\ ret_version = <<>>
    /\ ret_width = Return(0)
    /\ warned = 0
    /\ ncalls = 0
    /\ \/ b_table \in BisearchTables /\ b_ucs \in 0..(MaxCode + 1)
       \/ b_table = ExampleTable /\ b_ucs \in ExampleQueries
    /\ lbound = 0
    /\ ubound = 0
    /\ b_pc = "idle"
    /\ b_ret = 0

\* lines 88-92
BisearchEnter ==
    /\ b_pc = "idle"
    /\ LET e == bisearch_enter(b_ucs, py_tuple(b_table))
       IN  /\ lbound' = e.lbound
           /\ ubound' = e.ubound
           /\ b_pc' = e.pc
           /\ b_ret' = e.ret
    /\ UNCHANGED <<b_table, b_ucs>>
    /\ UNCHANGED resolver_vars

\* lines 94-103: one test of the loop condition with one pass of the body
BisearchStep ==
    /\ b_pc = "loop"
    /\ LET s == bisearch_iter(b_ucs, b_table, lbound, ubound)
       IN  /\ lbound' = s.lbound
           /\ ubound' = s.ubound
           /\ b_pc' = s.pc
           /\ b_ret' = s.ret
    /\ UNCHANGED <<b_table, b_ucs>>
    /\ UNCHANGED resolver_vars

NextBisearch == BisearchEnter \/ BisearchStep

\* a call of _bisearch runs on until it returns
SpecBisearch == InitBisearch /\ [][NextBisearch]_vars /\ WF_vars(NextBisearch)

----------------------------------------------------------------------------
(* What the specification says, stated apart from the code's operators *)

\* value(a) <= value(b) under Version Ordering
version_le(a, b) == tuple_le(wcversion_value(a), wcversion_value(b))

\* q lies in some interval of the table
in_table(q, items) == \E i \in 1..Len(items) : items[i][1] <= q /\ q <= items[i][2]

is_control(c) == c < 32 \/ (127 <= c /\ c < 160)

\* the version a token stands for under the override in force now
resolved_now(token) == wcmatch_version_body(token, environ, supported_versions).ret

\* the width the classification rules give c against one version's tables
table_width(c, version) ==
    IF is_control(c) THEN -1
    ELSE IF in_table(c, zero_width_table(version)) THEN 0
    ELSE IF in_table(c, wide_eastasian_table(version)) THEN 2
    ELSE IF 65024 <= c /\ c <= 65039 THEN 0
    ELSE IF c \in VS16_NARROW_TO_WIDE THEN 2
    ELSE 1

RECURSIVE sum_widths(_, _)
sum_widths(chars, version) ==
    IF chars = <<>> THEN 0
    ELSE table_width(Head(chars), version) + sum_widths(Tail(chars), version)

\* the first n code points of the last wcswidth call (all when n is None)
measured_chars ==
    IF args.n = <<>> THEN args.pwcs ELSE py_prefix(args.pwcs, args.n[1])

----------------------------------------------------------------------------
(* Claims *)

\* C1: a resolve of a dotted-numeric token that some supported version does
\* not exceed returns the greatest supported version not exceeding it.
C1_NearestLower ==
    (/\ op = "resolve"
     /\ args.token \in NumericTokens
     /\ \E v \in Range(supported_versions) : version_le(v, args.token))
    => /\ ret_version \in Range(supported_versions)
       /\ version_le(ret_version, args.token)
       /\ \A v \in Range(supported_versions) :
             version_le(v, args.token) => version_le(v, ret_version)

\* resolve('4.9.9') with 4.1.0 and 5.0.0 supported has returned '4.1.0'
C1_Witness ==
    /\ op = "resolve"
    /\ args.token = <<"4", ".", "9", ".", "9">>
    /\ {v_4_1_0, v_5_0_0} \subseteq Range(supported_versions)
    /\ ret_version = v_4_1_0

\* C2: a resolve of a partial token 'a.b' (or 'a') returns the supported
\* version 'a.b.0' (or 'a.0.0') whose leading components it equals.
C2_PartialMatch ==
    (op = "resolve" /\ args.token \in NumericTokens)
    => \A v \in Range(supported_versions) :
          (v = args.token \o <<".", "0">> \/ v = args.token \o <<".", "0", ".", "0">>)
          => ret_version = v

\* C3: every resolve returns a supported version, and the earliest one when
\* no supported version is as low as the token.
C3_AlwaysSupported ==
    op = "resolve"
    => /\ ret_version \in Range(supported_versions)
       /\ (/\ args.token \in NumericTokens
           /\ \A v \in Range(supported_versions) : ~version_le(v, args.token))
          => ret_version = supported_versions[1]

\* resolve('1') with earliest version 4.1.0 has returned '4.1.0'
C3_Witness ==
    /\ op = "resolve"
    /\ args.token = <<"1">>
    /\ supported_versions[1] = v_4_1_0
    /\ ret_version = v_4_1_0
    /\ warned = 1

\* C4: wcwidth of a code point outside the control ranges returns the width
\* its classification gives against the tables of the version the token
\* resolves to, a value in {-1, 0, 1, 2}.
C4_VersionTables ==
    (op = "wcwidth" /\ ~is_control(args.wc))
    => /\ ret_width.exc = "none"
       /\ ret_width.val = table_width(args.wc, resolved_now(args.token))
       /\ ret_width.val \in {-1, 0, 1, 2}

\* C5: wcwidth of a C0 or C1 control code point with a supported version
\* returns -1, whatever the tables are.
C5_ControlMinusOne ==
    (op = "wcwidth" /\ is_control(args.wc) /\ args.token \in Range(supported_versions))
    => ret_width = Return(-1)

\* wcwidth(0x9F, '8.0.0') has returned -1
C5_Witness ==
    /\ op = "wcwidth"
    /\ args.wc = 159
    /\ args.token = v_8_0_0
    /\ ret_width = Return(-1)

\* C6: wcswidth returns -1 when one of the measured code points is
\* unprintable and the sum of their widths otherwise (0 for none).
C6_SumOrMinusOne ==
    op = "wcswidth"
    => /\ ret_width.exc = "none"
       /\ IF \E i \in 1..Len(measured_chars) : is_control(measured_chars[i])
          THEN ret_width.val = -1
          ELSE ret_width.val = sum_widths(measured_chars, resolved_now(args.token))

\* C7: every resolve and every wcwidth returns what its uncached body gives
\* under the override in force at the call.
C7_NoStaleResult ==
    /\ op = "resolve" => ret_version = resolved_now(args.token)
    /\ op = "wcwidth" => ret_width = wcwidth_body(args.wc, resolved_now(args.token))

\* C8: after resolve(v) returned r, wcwidth(c, r) and wcwidth(c, v) return
\* the same width for every code point c, and resolve(r) returns r.
C8_RoundTrip ==
    op = "resolve"
    => /\ \A c \in CodePoints :
             LET w1 == wcwidth(c, ret_version, match_cache, width_cache,
                               environ, supported_versions)
                 w2 == wcwidth(c, args.token, w1.mcache, w1.wcache,
                               environ, supported_versions)
             IN  /\ w1.out.exc = "none"
                 /\ w2.out.exc = "none"
                 /\ w1.out.val = w2.out.val
       /\ wcmatch_version(ret_version, match_cache, environ, supported_versions).ret
             = ret_version

\* C9: a resolve of a dotted-numeric token emits a warning exactly when the
\* version it returns is not the token string.
C9_WarnIffSubstituted ==
    (op = "resolve" /\ args.token \in NumericTokens)
    => (warned >= 1 <=> ret_version # args.token)

\* C10: _bisearch ends, and returns 1 exactly when the query lies in an
\* interval of the table, and 0 at once when the query is outside the table's
\* range.
C10_BisearchCorrect ==
    /\ [](b_pc = "done" => (b_ret \in {0, 1} /\ (b_ret = 1 <=> in_table(b_ucs, b_table))))
    /\ [](b_pc \in {"idle", "loop", "done"})
    /\ [][(b_pc = "idle" /\ (b_ucs < b_table[1][1] \/ b_ucs > b_table[Len(b_table)][2]))
            => (b_pc' = "done" /\ b_ret' = 0)]_vars
    /\ <>(b_pc = "done")

\* _bisearch(30, [(10,20),(30,40)]) has returned 1 after moving lbound
C10_Witness ==
    /\ b_pc = "done"
    /\ b_table = ExampleTable
    /\ b_ucs = 30
    /\ lbound = 1
    /\ b_ret = 1

====
